---- MODULE Spec2Model ----
(***************************************************************************)
(* Model of packages/coding-agent/src/core/export-html/ansi-to-html.ts:    *)
(* the ANSI (SGR) to HTML transcoder ansiToHtml / ansiLinesToHtml and the  *)
(* 256-colour resolver ansi256ToHex.                                       *)
(*                                                                         *)
(* A JavaScript string is modelled as a sequence of one-character strings. *)
(* The character U+001B is written ESC.  Positions (lastIndex, match.index,*)
(* the code index i) are 0-based as in the source.                         *)
(* An unset field of StyleState (undefined) is <<>> for fg/bg and FALSE    *)
(* for the four flags: the source only ever tests these fields for         *)
(* truthiness, and no colour the source produces is the empty string.      *)
(***************************************************************************)
EXTENDS Integers, Sequences, FiniteSets

ESC == "ESC"

\* codes[i + k] read past the end of the array (undefined)
Undefined == -1

DigitChars == <<"0", "1", "2", "3", "4", "5", "6", "7", "8", "9">>

HexChars ==
    <<"0", "1", "2", "3", "4", "5", "6", "7", "8", "9", "a", "b", "c", "d", "e", "f">>

IsDigit(c) == \E d \in 1..10 : DigitChars[d] = c

DigitVal(c) == (CHOOSE d \in 1..10 : DigitChars[d] = c) - 1

\* String.prototype.slice(a, b) for 0 <= a, b <= length
Slice(s, a, b) == SubSeq(s, a + 1, b)

\* the concatenation of the strings of ss
RECURSIVE Flatten(_)
Flatten(ss) == IF ss = <<>> THEN <<>> ELSE Head(ss) \o Flatten(Tail(ss))

\* Array.prototype.join(sep)
RECURSIVE Join(_, _)
Join(ss, sep) ==
    IF ss = <<>> THEN <<>>
    ELSE IF Len(ss) = 1 THEN ss[1]
    ELSE ss[1] \o sep \o Join(Tail(ss), sep)

\* Number.prototype.toString(radix) of a non-negative integer, radix 10 or 16
RECURSIVE NumToString(_, _)
NumToString(n, radix) ==
    IF n < radix THEN <<HexChars[n + 1]>>
    ELSE NumToString(n \div radix, radix) \o <<HexChars[(n % radix) + 1]>>

\* String.prototype.padStart(2, "0")
PadStart2(s) == IF Len(s) < 2 THEN <<"0">> \o s ELSE s

\* Number.parseInt(s, 10) of a non-empty string of decimal digits
RECURSIVE ParseInt(_)
ParseInt(s) ==
    IF Len(s) = 1 THEN DigitVal(s[1])
    ELSE 10 * ParseInt(SubSeq(s, 1, Len(s) - 1)) + DigitVal(s[Len(s)])

\* String.prototype.split(sep) for a one-character separator: "" gives [""]
RECURSIVE Split(_, _)
Split(s, sep) ==
    IF \A k \in 1..Len(s) : s[k] # sep THEN <<s>>
    ELSE LET p == CHOOSE k \in 1..Len(s) : s[k] = sep /\ \A j \in 1..(k - 1) : s[j] # sep
         IN  <<SubSeq(s, 1, p - 1)>> \o Split(SubSeq(s, p + 1, Len(s)), sep)

\* String.prototype.replace(/ch/g, repl)
RECURSIVE ReplaceAll(_, _, _)
ReplaceAll(s, ch, repl) ==
    IF s = <<>> THEN <<>>
    ELSE (IF Head(s) = ch THEN repl ELSE <<Head(s)>>) \o ReplaceAll(Tail(s), ch, repl)

ANSI_COLORS_16 ==
    << <<"#", "0", "0", "0", "0", "0", "0">>,
       <<"#", "c", "d", "0", "0", "0", "0">>,
       <<"#", "0", "0", "c", "d", "0", "0">>,
       <<"#", "c", "d", "c", "d", "0", "0">>,
       <<"#", "0", "0", "0", "0", "e", "e">>,
       <<"#", "c", "d", "0", "0", "c", "d">>,
       <<"#", "0", "0", "c", "d", "c", "d">>,
       <<"#", "e", "5", "e", "5", "e", "5">>,
       <<"#", "7", "f", "7", "f", "7", "f">>,
       <<"#", "f", "f", "0", "0", "0", "0">>,
       <<"#", "0", "0", "f", "f", "0", "0">>,
       <<"#", "f", "f", "f", "f", "0", "0">>,
       <<"#", "5", "c", "5", "c", "f", "f">>,
       <<"#", "f", "f", "0", "0", "f", "f">>,
       <<"#", "0", "0", "f", "f", "f", "f">>,
       <<"#", "f", "f", "f", "f", "f", "f">> >>

\* the bright half of the table is never reached
Color16_NoBright(k) == IF k \in 0..15 THEN ANSI_COLORS_16[(k % 8) + 1] ELSE <<>>

\* ANSI_COLORS_16[k]: undefined (here <<>>) for a key that is not in the table
Color16(k) == IF k \in 0..15 THEN ANSI_COLORS_16[k + 1] ELSE <<>>

\* the channel written without padStart
toHex_NoPad(c) == NumToString(IF c = 0 THEN 0 ELSE 55 + c * 40, 16)

toHex(c) == PadStart2(NumToString(IF c = 0 THEN 0 ELSE 55 + c * 40, 16))

ansi256ToHex(code) ==
    IF code < 16
    THEN IF Color16(code) # <<>> THEN Color16(code)
         ELSE <<"#", "f", "f", "f", "f", "f", "f">>
    ELSE IF code < 232
    THEN LET n == code - 16
             r == n \div 36
             g == (n % 36) \div 6
             b == n % 6
         IN  <<"#">> \o toHex(r) \o toHex(g) \o toHex(b)
    ELSE LET gray == (code - 232) * 10 + 8
             hex == PadStart2(NumToString(gray, 16))
         IN  <<"#">> \o hex \o hex \o hex

\* the template with the green and blue channels exchanged
rgb_Swapped(r, g, b) ==
    <<"r", "g", "b", "(">> \o NumToString(r, 10) \o <<",">> \o NumToString(b, 10)
        \o <<",">> \o NumToString(g, 10) \o <<")">>

\* `rgb(${r},${g},${b})`
rgb(r, g, b) ==
    <<"r", "g", "b", "(">> \o NumToString(r, 10) \o <<",">> \o NumToString(g, 10)
        \o <<",">> \o NumToString(b, 10) \o <<")">>

\* const state: StyleState = {}
EmptyState ==
    [fg |-> <<>>, bg |-> <<>>, bold |-> FALSE, italic |-> FALSE,
     underline |-> FALSE, dim |-> FALSE]

SpanOpenPrefix == <<"<", "s", "p", "a", "n", " ", "s", "t", "y", "l", "e", "=", "\"">>

SpanOpenSuffix == <<"\"", ">">>

SpanClose == <<"<", "/", "s", "p", "a", "n", ">">>

DeclColor == <<"c", "o", "l", "o", "r", ":">>

DeclBackground ==
    <<"b", "a", "c", "k", "g", "r", "o", "u", "n", "d", "-", "c", "o", "l", "o", "r", ":">>

DeclBold == <<"f", "o", "n", "t", "-", "w", "e", "i", "g", "h", "t", ":", "b", "o", "l", "d">>

DeclItalic == <<"f", "o", "n", "t", "-", "s", "t", "y", "l", "e", ":", "i", "t", "a", "l", "i", "c">>

DeclUnderline ==
    <<"t", "e", "x", "t", "-", "d", "e", "c", "o", "r", "a", "t", "i", "o", "n", ":",
      "u", "n", "d", "e", "r", "l", "i", "n", "e">>

DeclDim == <<"o", "p", "a", "c", "i", "t", "y", ":", "0", ".", "6">>

\* the declarations pushed in the order of the SGR numbers 1, 2, 3, 4
Styles_DimSecond(st) ==
    (IF st.fg # <<>> THEN <<DeclColor \o st.fg>> ELSE <<>>)
    \o (IF st.bg # <<>> THEN <<DeclBackground \o st.bg>> ELSE <<>>)
    \o (IF st.bold THEN <<DeclBold>> ELSE <<>>)
    \o (IF st.dim THEN <<DeclDim>> ELSE <<>>)
    \o (IF st.italic THEN <<DeclItalic>> ELSE <<>>)
    \o (IF st.underline THEN <<DeclUnderline>> ELSE <<>>)

\* the styles array of openSpan
Styles(st) ==
    (IF st.fg # <<>> THEN <<DeclColor \o st.fg>> ELSE <<>>)
    \o (IF st.bg # <<>> THEN <<DeclBackground \o st.bg>> ELSE <<>>)
    \o (IF st.bold THEN <<DeclBold>> ELSE <<>>)
    \o (IF st.italic THEN <<DeclItalic>> ELSE <<>>)
    \o (IF st.underline THEN <<DeclUnderline>> ELSE <<>>)
    \o (IF st.dim THEN <<DeclDim>> ELSE <<>>)

openSpan(st) ==
    IF Len(Styles(st)) > 0
    THEN SpanOpenPrefix \o Join(Styles(st), <<";">>) \o SpanOpenSuffix
    ELSE <<>>

\* the test without state.dim
hasStyle_NoDim(st) ==
    st.fg # <<>> \/ st.bg # <<>> \/ st.bold \/ st.italic \/ st.underline

hasStyle(st) ==
    st.fg # <<>> \/ st.bg # <<>> \/ st.bold \/ st.italic \/ st.underline \/ st.dim

EntAmp == <<"&", "a", "m", "p", ";">>

EntLt == <<"&", "l", "t", ";">>

EntGt == <<"&", "g", "t", ";">>

\* the three replacements with "&" last
escapeHtml_AmpLast(s) ==
    ReplaceAll(ReplaceAll(ReplaceAll(s, "<", EntLt), ">", EntGt), "&", EntAmp)

escapeHtml(s) == ReplaceAll(ReplaceAll(ReplaceAll(s, "&", EntAmp), "<", EntLt), ">", EntGt)

\* the segment is written without the test that it is not empty
AppendText_NoEmptyTest(res, st, seg) ==
    IF hasStyle(st)
    THEN res \o openSpan(st) \o escapeHtml(seg) \o SpanClose
    ELSE res \o escapeHtml(seg)

\* one span for every character of the segment
AppendText_PerCharacter(res, st, seg) ==
    IF seg # <<>>
    THEN IF hasStyle(st)
         THEN res \o Flatten([k \in 1..Len(seg) |->
                                 openSpan(st) \o escapeHtml(<<seg[k]>>) \o SpanClose])
         ELSE res \o escapeHtml(seg)
    ELSE res

\* the span is written without the hasStyle test
AppendText_NoTest(res, st, seg) ==
    IF seg # <<>> THEN res \o openSpan(st) \o escapeHtml(seg) \o SpanClose ELSE res

\* result after "Append text before this match" / "Append remaining text"
AppendText(res, st, seg) ==
    IF seg # <<>>
    THEN IF hasStyle(st)
         THEN res \o openSpan(st) \o escapeHtml(seg) \o SpanClose
         ELSE res \o escapeHtml(seg)
    ELSE res

\* The regular expression ESC [ (digits and semicolons, greedy) m, flag g.
\* "m" is not in the class, so a match at p exists exactly when the maximal
\* run of digits and semicolons after ESC [ is followed by "m".
IsParamChar(c) == IsDigit(c) \/ c = ";"

\* 0-based position of the first character at or after p that is not in [0-9;]
RECURSIVE RunEnd(_, _)
RunEnd(s, p) ==
    IF p < Len(s) /\ IsParamChar(s[p + 1]) THEN RunEnd(s, p + 1) ELSE p

\* any character after the parameters ends the sequence
MatchAt_AnyFinal(s, p) ==
    /\ p + 1 < Len(s)
    /\ s[p + 1] = ESC
    /\ s[p + 2] = "["
    /\ RunEnd(s, p + 2) < Len(s)

MatchAt(s, p) ==
    /\ p + 1 < Len(s)
    /\ s[p + 1] = ESC
    /\ s[p + 2] = "["
    /\ RunEnd(s, p + 2) < Len(s)
    /\ s[RunEnd(s, p + 2) + 1] = "m"

NoMatch == [index |-> -1, params |-> <<>>, length |-> 0]

\* the next element of text.matchAll(ansiRegex), searching from position from
NextMatch(s, from) ==
    IF \E p \in from..(Len(s) - 1) : MatchAt(s, p)
    THEN LET p == CHOOSE q \in from..(Len(s) - 1) :
                      MatchAt(s, q) /\ \A q2 \in from..(q - 1) : ~MatchAt(s, q2)
             e == RunEnd(s, p + 2)
         IN  [index |-> p, params |-> Slice(s, p + 2, e), length |-> e + 1 - p]
    ELSE NoMatch

\* match[1].split(";").map(s => s === "" ? 0 : Number.parseInt(s, 10))
ParseCodes(params) ==
    LET toks == Split(params, ";")
    IN  [k \in 1..Len(toks) |-> IF toks[k] = <<>> THEN 0 ELSE ParseInt(toks[k])]

\* codes[k] for a 0-based k
CodeAt(cs, k) == IF k < Len(cs) THEN cs[k + 1] ELSE Undefined

\* the code === 38 / code === 48 branch: the colour it assigns (old when it
\* assigns none) and how far it moves i before the loop's own i++
ExtendedColor(cs, k, old) ==
    IF CodeAt(cs, k + 1) = 5 /\ CodeAt(cs, k + 2) # Undefined
    THEN [color |-> ansi256ToHex(CodeAt(cs, k + 2)), skip |-> 2]
    ELSE IF CodeAt(cs, k + 1) = 2 /\ CodeAt(cs, k + 4) # Undefined
    THEN [color |-> rgb(CodeAt(cs, k + 2), CodeAt(cs, k + 3), CodeAt(cs, k + 4)),
          skip |-> 4]
    ELSE [color |-> old, skip |-> 0]

\* the reset that leaves dim as it was
ResetState_KeepsDim(st) ==
    [st EXCEPT !.fg = <<>>, !.bg = <<>>, !.bold = FALSE, !.italic = FALSE,
               !.underline = FALSE]

\* the branch code === 0: every field becomes undefined
ResetState(st) ==
    [st EXCEPT !.fg = <<>>, !.bg = <<>>, !.bold = FALSE, !.italic = FALSE,
               !.underline = FALSE, !.dim = FALSE]

\* code 21 taken for "bold off"
OtherCode_21BoldOff(st, code) == IF code = 21 THEN [st EXCEPT !.bold = FALSE] ELSE st

\* a code that no branch of the if-chain tests for: nothing is assigned
OtherCode(st, code) == st

\* code 22 taken as "bold off" alone
IntensityOff_BoldOnly(st) == [st EXCEPT !.bold = FALSE]

\* the branch of code 22: state.bold = false; state.dim = false
IntensityOff(st) == [st EXCEPT !.bold = FALSE, !.dim = FALSE]

\* the StyleState after the branch of the if-chain that codes[k] selects
ApplyCode(st, cs, k) ==
    LET code == cs[k + 1]
    IN  IF code = 0 THEN ResetState(st)
        ELSE IF code = 1 THEN [st EXCEPT !.bold = TRUE]
        ELSE IF code = 2 THEN [st EXCEPT !.dim = TRUE]
        ELSE IF code = 3 THEN [st EXCEPT !.italic = TRUE]
        ELSE IF code = 4 THEN [st EXCEPT !.underline = TRUE]
        ELSE IF code = 22 THEN IntensityOff(st)
        ELSE IF code = 23 THEN [st EXCEPT !.italic = FALSE]
        ELSE IF code = 24 THEN [st EXCEPT !.underline = FALSE]
        ELSE IF code >= 30 /\ code <= 37 THEN [st EXCEPT !.fg = Color16(code - 30)]
        ELSE IF code = 38 THEN [st EXCEPT !.fg = ExtendedColor(cs, k, st.fg).color]
        ELSE IF code = 39 THEN [st EXCEPT !.fg = <<>>]
        ELSE IF code >= 40 /\ code <= 47 THEN [st EXCEPT !.bg = Color16(code - 40)]
        ELSE IF code = 48 THEN [st EXCEPT !.bg = ExtendedColor(cs, k, st.bg).color]
        ELSE IF code = 49 THEN [st EXCEPT !.bg = <<>>]
        ELSE IF code >= 90 /\ code <= 97 THEN [st EXCEPT !.fg = Color16(code - 90 + 8)]
        ELSE IF code >= 100 /\ code <= 107 THEN [st EXCEPT !.bg = Color16(code - 100 + 8)]
        ELSE OtherCode(st, code)

\* i++ written inside the branches that consume sub-parameters only
NextI_NoAdvance(cs, k) ==
    IF cs[k + 1] = 38 \/ cs[k + 1] = 48
    THEN IF ExtendedColor(cs, k, <<>>).skip = 0 THEN k
         ELSE k + ExtendedColor(cs, k, <<>>).skip + 1
    ELSE k + 1

\* i += 2 and i += 4 written as the whole step of the 38 and 48 branches
NextI_NoIncrement(cs, k) ==
    IF cs[k + 1] = 38 \/ cs[k + 1] = 48
    THEN k + ExtendedColor(cs, k, <<>>).skip
    ELSE k + 1

\* the sub-parameters of a complete selector are not passed over
NextI_NoSkip(cs, k) == k + 1

\* the value of i after one iteration of the while loop (the branch, then i++)
NextI(cs, k) ==
    IF cs[k + 1] = 38 \/ cs[k + 1] = 48
    THEN k + ExtendedColor(cs, k, <<>>).skip + 1
    ELSE k + 1

\* lastIndex left at the start of the match
MatchEnd_Start(m) == m.index

\* (match.index ?? 0) + match[0].length
MatchEnd(m) == m.index + m.length

\* the "<br>" of ansiLinesToHtml
LineBreak == <<"<", "b", "r", ">">>

\* every line followed by the marker
ansiLinesToHtml_Trailing(hs) == Flatten([k \in 1..Len(hs) |-> hs[k] \o LineBreak])

\* lines.map(ansiToHtml).join("<br>"), hs the array that map returns
ansiLinesToHtml(hs) == Join(hs, LineBreak)

VARIABLES
    lines,      \* the argument of ansiLinesToHtml
    lineNo,     \* how many lines lines.map(ansiToHtml) has converted
    htmlLines,  \* the array lines.map(ansiToHtml) has built so far
    html,       \* the value ansiLinesToHtml returns
    pc,         \* "map", "scan" (head of the for loop), "codes" (while loop), "done"
    text,       \* the argument of the running ansiToHtml call
    state,      \* its StyleState
    result,     \* its result
    lastIndex,  \* its lastIndex
    match,      \* the current element of text.matchAll(ansiRegex)
    codes,      \* the codes of the current match
    i,          \* the index of the while loop
    extensions,       \* what extensionRunner.getToolDefinition gives for each tool name
    toolDefinitions,  \* the Map toolDefinitions of createToolHtmlRenderer
    invocation,       \* the running or last call of renderCall or renderResult
    returned          \* what that call has handed to its caller

vars == <<lines, lineNo, htmlLines, html, pc, text, state, result, lastIndex, match, codes, i>>

rendererVars == <<extensions, toolDefinitions, invocation, returned>>

allVars == <<vars, rendererVars>>

\* where the iterator of matchAll resumes: the end of its previous match
SearchFrom == IF match = NoMatch THEN 0 ELSE match.index + match.length

InitWith(input) ==
    /\ lines = input
    /\ lineNo = 0
    /\ htmlLines = <<>>
    /\ html = <<>>
    /\ pc = "map"
    /\ text = <<>>
    /\ state = EmptyState
    /\ result = <<>>
    /\ lastIndex = 0
    /\ match = NoMatch
    /\ codes = <<>>
    /\ i = 0

\* the StyleState kept from the previous call
StaleState == state

\* the state of a fresh call of ansiToHtml
FreshState == EmptyState

\* lines.map calls ansiToHtml on the next line
Call ==
    /\ pc = "map"
    /\ lineNo < Len(lines)
    /\ text' = lines[lineNo + 1]
    /\ state' = FreshState
    /\ result' = <<>>
    /\ lastIndex' = 0
    /\ match' = NoMatch
    /\ codes' = <<>>
    /\ i' = 0
    /\ pc' = "scan"
    /\ UNCHANGED <<lines, lineNo, htmlLines, html>>
    /\ UNCHANGED rendererVars

\* the for loop takes the next match: the text before it, then its codes
ForMatch ==
    /\ pc = "scan"
    /\ NextMatch(text, SearchFrom) # NoMatch
    /\ LET m == NextMatch(text, SearchFrom)
       IN  /\ match' = m
           /\ result' = AppendText(result, state, Slice(text, lastIndex, m.index))
           /\ codes' = ParseCodes(m.params)
    /\ i' = 0
    /\ pc' = "codes"
    /\ UNCHANGED <<lines, lineNo, htmlLines, html, text, state, lastIndex>>
    /\ UNCHANGED rendererVars

\* one iteration of while (i < codes.length)
WhileStep ==
    /\ pc = "codes"
    /\ i < Len(codes)
    /\ state' = ApplyCode(state, codes, i)
    /\ i' = NextI(codes, i)
    /\ UNCHANGED <<lines, lineNo, htmlLines, html, pc, text, result, lastIndex, match, codes>>
    /\ UNCHANGED rendererVars

\* the while loop ends: lastIndex moves past the match
WhileEnd ==
    /\ pc = "codes"
    /\ ~(i < Len(codes))
    /\ lastIndex' = MatchEnd(match)
    /\ pc' = "scan"
    /\ UNCHANGED <<lines, lineNo, htmlLines, html, text, state, result, match, codes, i>>
    /\ UNCHANGED rendererVars

\* no match is left: the remaining text, then return result
Return ==
    /\ pc = "scan"
    /\ NextMatch(text, SearchFrom) = NoMatch
    /\ LET r == AppendText(result, state, Slice(text, lastIndex, Len(text)))
       IN  /\ result' = r
           /\ htmlLines' = Append(htmlLines, r)
    /\ lineNo' = lineNo + 1
    /\ pc' = "map"
    /\ UNCHANGED <<lines, html, text, state, lastIndex, match, codes, i>>
    /\ UNCHANGED rendererVars

\* .join("<br>")
JoinLines ==
    /\ pc = "map"
    /\ lineNo = Len(lines)
    /\ html' = ansiLinesToHtml(htmlLines)
    /\ pc' = "done"
    /\ UNCHANGED <<lines, lineNo, htmlLines, text, state, result, lastIndex, match, codes, i>>
    /\ UNCHANGED rendererVars

Next == Call \/ ForMatch \/ WhileStep \/ WhileEnd \/ Return \/ JoinLines

(***************************************************************************)
(* createToolHtmlRenderer.  A ToolDefinition is known by its name and by   *)
(* whether it has a renderCall and a renderResult function; what such a    *)
(* function does when called is an input of the call.                      *)
(***************************************************************************)
ToolNames == {"deploy", "search"}

\* getToolDefinition found nothing: undefined
NoDefinition == [name |-> "", renderCall |-> FALSE, renderResult |-> FALSE]

Definitions(n) == [name : {n}, renderCall : BOOLEAN, renderResult : BOOLEAN]

\* new Map()
EmptyMap == [n \in {} |-> NoDefinition]

\* the local getToolDefinition: the definition, and the Map after the call
getToolDefinition(cache, ext, toolName) ==
    IF toolName \in DOMAIN cache
    THEN [def |-> cache[toolName], cache |-> cache]
    ELSE IF ext[toolName] # NoDefinition
    THEN [def |-> ext[toolName],
          cache |-> [n \in DOMAIN cache \cup {toolName} |->
                        IF n = toolName THEN ext[toolName] ELSE cache[n]]]
    ELSE [def |-> NoDefinition, cache |-> cache]

\* what def.renderCall or def.renderResult does in one call: it throws, it
\* returns no component, or it returns a component whose render throws or
\* returns lines
ComponentLines ==
    { <<>>, << <<"a">> >>, << <<ESC, "[", "1", "m", "<">>, <<"b">> >> }

RenderBehaviours ==
    [kind : {"throws", "nothing", "renderThrows"}, lines : {<<>>}]
        \cup [kind : {"lines"}, lines : ComponentLines]

\* the body of the try block up to the call of ansiLinesToHtml
TryRender(b) ==
    IF b.kind = "throws" \/ b.kind = "renderThrows" THEN "error"
    ELSE IF b.kind = "nothing" THEN "undefined"
    ELSE "convert"

\* the error leaves the function
Caught_Rethrown(r) == r

\* catch { return undefined }
Caught(r) == IF r = "error" THEN "undefined" ELSE r

NoInvocation == [op |-> "none", toolName |-> "", behaviour |-> "none"]

NotReturned == [kind |-> "none", value |-> <<>>]

\* the renderer is not in use: ansiLinesToHtml is called on its own
RendererUnused ==
    /\ extensions = [n \in ToolNames |-> NoDefinition]
    /\ toolDefinitions = EmptyMap
    /\ invocation = NoInvocation
    /\ returned = NotReturned

\* renderCall or renderResult (op) up to its return, or up to the call of
\* ansiLinesToHtml on the lines of the component
Invoke(op, toolName, b) ==
    /\ pc = "done"
    /\ returned.kind # "pending"
    /\ LET got == getToolDefinition(toolDefinitions, extensions, toolName)
           has == IF op = "renderCall" THEN got.def.renderCall ELSE got.def.renderResult
           r == IF ~has THEN "undefined" ELSE Caught(TryRender(b))
       IN  /\ toolDefinitions' = got.cache
           /\ invocation' = [op |-> op, toolName |-> toolName,
                             behaviour |-> IF has THEN b.kind ELSE "notCalled"]
           /\ IF r = "convert"
              THEN /\ returned' = [kind |-> "pending", value |-> <<>>]
                   /\ lines' = b.lines
                   /\ lineNo' = 0
                   /\ htmlLines' = <<>>
                   /\ html' = <<>>
                   /\ pc' = "map"
                   /\ UNCHANGED <<text, state, result, lastIndex, match, codes, i>>
              ELSE /\ returned' = [kind |-> r, value |-> <<>>]
                   /\ UNCHANGED vars
    /\ UNCHANGED extensions

renderCall == \E toolName \in ToolNames, b \in RenderBehaviours : Invoke("renderCall", toolName, b)

renderResult ==
    \E toolName \in ToolNames, b \in RenderBehaviours : Invoke("renderResult", toolName, b)

\* return renderComponentToHtml(component)
RenderReturn ==
    /\ pc = "done"
    /\ returned.kind = "pending"
    /\ returned' = [kind |-> "string", value |-> html]
    /\ UNCHANGED <<vars, extensions, toolDefinitions, invocation>>

RendererInit ==
    /\ extensions \in { [n \in ToolNames |-> IF n = "deploy" THEN d ELSE e] :
                           d \in Definitions("deploy") \cup {NoDefinition},
                           e \in Definitions("search") \cup {NoDefinition} }
    /\ toolDefinitions = EmptyMap
    /\ invocation = NoInvocation
    /\ returned = NotReturned
    /\ lines = <<>>
    /\ lineNo = 0
    /\ htmlLines = <<>>
    /\ html = <<>>
    /\ pc = "done"
    /\ text = <<>>
    /\ state = EmptyState
    /\ result = <<>>
    /\ lastIndex = 0
    /\ match = NoMatch
    /\ codes = <<>>
    /\ i = 0

RendererNext ==
    renderCall \/ renderResult \/ RenderReturn
        \/ Call \/ ForMatch \/ WhileStep \/ WhileEnd \/ Return \/ JoinLines

(***************************************************************************)
(* Inputs.  Bounded families of arguments of ansiLinesToHtml.              *)
(***************************************************************************)
MaxPieces == 3

MaxCodes == 2

MaxLines == 3

\* all sequences of at most n elements of S
SeqsUpTo(S, n) == UNION {[1..k -> S] : k \in 0..n}

\* the escape sequence ESC [ params m
SGR(params) == <<ESC, "[">> \o params \o <<"m">>

\* a parameter token: the decimal digits of n, or the empty token for Undefined
Token(n) == IF n = Undefined THEN <<>> ELSE NumToString(n, 10)

\* the escape sequence whose parameter tokens are those of ns
SGRCodes(ns) == SGR(Join([k \in 1..Len(ns) |-> Token(ns[k])], <<";">>))

\* Family 1: lines put together from single characters and short sequences,
\* among them unterminated and partial ones.
TextPieces ==
    { <<"x">>, <<"<">>, <<">">>, <<"&">>, <<ESC>>, <<"[">>, <<";">>, <<"1">>, <<"m">>,
      <<ESC, "[">>, SGR(<<"1">>), SGR(<<>>), <<"<", "s", "c", "r", "i", "p", "t", ">">> }

TextInputs == { <<Flatten(ps)>> : ps \in SeqsUpTo(TextPieces, MaxPieces) }

\* Family 2: a sequence that sets up a StyleState, text, the sequence under
\* test, text.
SetupCodes ==
    { <<>>, <<1>>, <<2>>, <<3>>, <<4>>, <<31>>, <<41>>, <<1, 2, 3, 4, 31, 41>> }

CodeTokens ==
    { Undefined, 0, 1, 2, 3, 4, 5, 21, 22, 23, 24, 31, 38, 39, 41, 48, 49, 91, 99, 101 }

ExtendedLists ==
    { <<38, 5, 196>>, <<38, 5, 244>>, <<38, 5, 300>>, <<38, 5, 1>>, <<38, 5, Undefined>>,
      <<48, 5, 1>>, <<48, 5, 300>>, <<48, 5, 21>>,
      <<38, 2, 10, 20, 30>>, <<38, 2, 999, 0, 0>>, <<38, 2, 1, 3, 4>>,
      <<48, 2, 10, 20, 30>>, <<48, 2, 1, 3, 4>>, <<48, 2, 0, 0, 256>>,
      <<38, 2, 1, 4>>, <<38, 2, 1>>, <<48, 2, 1>>, <<48, 2, 3, 4>>,
      <<38, 5, 1, 4>>, <<38, 2, 1, 3, 4, 1>>, <<1, 38, 5, 99>>, <<38, 99, 5, 1>> }

\* every code of the four colour ranges, and the codes next to their ends
RangeLists == { <<c>> : c \in (29..50) \cup (89..108) }

TestLists == SeqsUpTo(CodeTokens, MaxCodes) \cup ExtendedLists \cup RangeLists

CodeInputs ==
    { << (IF su = <<>> THEN <<>> ELSE SGRCodes(su)) \o <<"a">>
            \o (IF t = <<>> THEN SGR(<<>>) ELSE SGRCodes(t)) \o <<"b">> >> :
        su \in SetupCodes, t \in TestLists }

\* Family 3: several lines.
LineSet ==
    { <<>>, <<"a">>, <<"b">>, <<"<">>, SGR(<<"3", "1">>) \o <<"x">>, SGR(<<"9", "9">>) \o <<"a">>,
      SGR(<<"1">>) \o <<"b">> \o SGR(<<"0">>) \o <<"c">> }

MultiInputs == SeqsUpTo(LineSet, MaxLines)

\* Family 4: every index of the 256-colour palette, as foreground and as
\* background.
PaletteInputs ==
    { << SGRCodes(<<sel, 5, n>>) \o <<"a">> >> : sel \in {38, 48}, n \in 0..255 }

Inputs == TextInputs \cup CodeInputs \cup MultiInputs \cup PaletteInputs

Init == (\E input \in Inputs : InitWith(input)) /\ RendererUnused

Spec == Init /\ [][Next]_allVars

RendererSpec == RendererInit /\ [][RendererNext]_allVars

(***************************************************************************)
(* Reference definitions used to state the claims.                         *)
(***************************************************************************)
IsString(s) == s \in Seq(STRING)

\* s holds a complete sequence ESC [ (digits, semicolons) m
HasSequence(s) ==
    \E p \in 1..Len(s) : \E e \in (p + 2)..Len(s) :
        /\ s[p] = ESC
        /\ s[p + 1] = "["
        /\ s[e] = "m"
        /\ \A k \in (p + 2)..(e - 1) : s[k] \in {"0", "1", "2", "3", "4", "5", "6", "7", "8", "9", ";"}

\* s holds an ESC [ that begins no complete sequence
HasPartialSequence(s) ==
    \E p \in 1..(Len(s) - 1) :
        /\ s[p] = ESC
        /\ s[p + 1] = "["
        /\ ~HasSequence(SubSeq(s, p, Len(s)))

\* the longest line of the input
MaxLineLen ==
    IF lines = <<>> THEN 0
    ELSE CHOOSE n \in {Len(lines[k]) : k \in 1..Len(lines)} :
             \A k \in 1..Len(lines) : Len(lines[k]) <= n

RankW == MaxLineLen + 2

RankLine == RankW * RankW + 2

\* A measure of the work left: lines not yet returned, then characters the
\* iterator has not passed, then codes the while loop has not passed.
Rank ==
    IF pc = "done" THEN 0
    ELSE (Len(lines) - lineNo) * RankLine
         + (IF pc = "map" THEN RankLine - 1
            ELSE (Len(text) - SearchFrom) * RankW
                 + (IF pc = "codes" THEN Len(codes) - i + 1 ELSE 0))

\* every loop of the conversion moves forward
StepAdvances ==
    /\ pc = "map" => lineNo <= Len(lines)
    /\ pc = "scan" /\ NextMatch(text, SearchFrom) # NoMatch =>
           LET m == NextMatch(text, SearchFrom)
           IN  SearchFrom <= m.index /\ m.index < MatchEnd(m) /\ MatchEnd(m) <= Len(text)
    /\ pc = "codes" /\ i < Len(codes) =>
           i < NextI(codes, i) /\ NextI(codes, i) <= Len(codes)

\* C1. Totality: for every input (empty, plain, unknown codes, out-of-range
\* or missing sub-parameters, unterminated sequences) the conversion returns
\* a string and reaches no error state: result and the returned value are
\* strings in every state, the position is always one of the conversion's own,
\* every loop iteration moves forward, and every step decreases the measure
\* Rank, which is 0 exactly at the return of ansiLinesToHtml.
C1_Totality ==
    /\ [](/\ IsString(result)
          /\ IsString(html)
          /\ \A k \in 1..Len(htmlLines) : IsString(htmlLines[k])
          /\ pc \in {"map", "scan", "codes", "done"}
          /\ StepAdvances
          /\ Rank >= 0
          /\ (Rank = 0 <=> pc = "done"))
    /\ [][Rank' < Rank]_vars

\* an input with an unterminated sequence has been converted
C1_Witness ==
    /\ pc = "done"
    /\ Len(lines) = 1
    /\ HasPartialSequence(lines[1])
    /\ html # <<>>

\* the entity of one character
Entity(c) ==
    IF c = "&" THEN EntAmp ELSE IF c = "<" THEN EntLt ELSE IF c = ">" THEN EntGt ELSE <<c>>

\* every character of s replaced by its entity, once
EscapedOnce(s) == Flatten([k \in 1..Len(s) |-> Entity(s[k])])

\* the length of the complete sequence that starts at s[1], 0 when none does
SequenceLenAt(s) ==
    IF Len(s) >= 3 /\ s[1] = ESC /\ s[2] = "["
       /\ \E e \in 3..Len(s) :
              s[e] = "m" /\ \A k \in 3..(e - 1) : s[k] \in {"0", "1", "2", "3", "4", "5", "6", "7", "8", "9", ";"}
    THEN CHOOSE e \in 3..Len(s) :
             s[e] = "m" /\ \A k \in 3..(e - 1) : s[k] \in {"0", "1", "2", "3", "4", "5", "6", "7", "8", "9", ";"}
    ELSE 0

\* s with every complete sequence deleted
RECURSIVE LiteralText(_)
LiteralText(s) ==
    IF s = <<>> THEN <<>>
    ELSE IF SequenceLenAt(s) > 0 THEN LiteralText(SubSeq(s, SequenceLenAt(s) + 1, Len(s)))
    ELSE <<Head(s)>> \o LiteralText(Tail(s))

IsPrefix(p, s) == Len(p) <= Len(s) /\ SubSeq(s, 1, Len(p)) = p

\* the length of the span open marker that starts at out[1], 0 when none does
OpenMarkerLen(out) ==
    IF IsPrefix(SpanOpenPrefix, out)
       /\ \E q \in (Len(SpanOpenPrefix) + 1)..(Len(out) - 1) : out[q] = "\"" /\ out[q + 1] = ">"
    THEN 1 + CHOOSE q \in (Len(SpanOpenPrefix) + 1)..(Len(out) - 1) :
                 /\ out[q] = "\"" /\ out[q + 1] = ">"
                 /\ \A q2 \in (Len(SpanOpenPrefix) + 1)..(q - 1) : out[q2] # "\""
    ELSE 0

\* out with the span open and close markers deleted
RECURSIVE StripSpans(_)
StripSpans(out) ==
    IF out = <<>> THEN <<>>
    ELSE IF IsPrefix(SpanClose, out) THEN StripSpans(SubSeq(out, Len(SpanClose) + 1, Len(out)))
    ELSE IF OpenMarkerLen(out) > 0 THEN StripSpans(SubSeq(out, OpenMarkerLen(out) + 1, Len(out)))
    ELSE <<Head(out)>> \o StripSpans(Tail(out))

\* C2. Escaping: in the output of ansiToHtml for every line, what is left
\* when the span markers are taken out holds no "<" and no ">", and is the
\* literal text of the line with each "&", "<", ">" replaced by its entity
\* exactly once (no double escaping); so "<script>" never reaches the output.
C2_Escaping ==
    \A k \in 1..Len(htmlLines) :
        LET body == StripSpans(htmlLines[k])
        IN  /\ \A j \in 1..Len(body) : body[j] \notin {"<", ">"}
            /\ body = EscapedOnce(LiteralText(lines[k]))

\* "<script>" has been converted, and so has styled text with a special character
C2_Witness ==
    /\ pc = "done"
    /\ \/ /\ lines = << <<"<", "s", "c", "r", "i", "p", "t", ">">> >>
          /\ html = EntLt \o <<"s", "c", "r", "i", "p", "t">> \o EntGt
       \/ /\ lines = << SGR(<<"1">>) \o <<"&">> \o <<"<">> >>
          /\ html = SpanOpenPrefix \o DeclBold \o SpanOpenSuffix \o EntAmp \o EntLt \o SpanClose

\* C3. Identity on plain text: a line with no complete escape sequence and
\* none of "&", "<", ">" is returned by ansiToHtml exactly as it is.
C3_PlainIdentity ==
    \A k \in 1..Len(htmlLines) :
        (/\ ~HasSequence(lines[k])
         /\ \A j \in 1..Len(lines[k]) : lines[k][j] \notin {"&", "<", ">"})
        => htmlLines[k] = lines[k]

\* a non-empty plain line has been converted to itself
C3_Witness ==
    /\ pc = "done"
    /\ lines = << <<"x", "[", "1">> >>
    /\ html = <<"x", "[", "1">>

\* the state after ESC[1;2;3;4;31;41m: every field set
AllSet ==
    [fg |-> ANSI_COLORS_16[2], bg |-> ANSI_COLORS_16[2], bold |-> TRUE, italic |-> TRUE,
     underline |-> TRUE, dim |-> TRUE]

\* the while loop is about to interpret code c
AtCode(c) == pc = "codes" /\ i < Len(codes) /\ codes[i + 1] = c

\* the positions of the semicolons of s, and the bounds of its k-th token
SemiPos(s) == {q \in 1..Len(s) : s[q] = ";"}

TokenLeft(s, k) ==
    IF k = 1 THEN 0
    ELSE CHOOSE q \in SemiPos(s) : Cardinality({r \in SemiPos(s) : r < q}) = k - 2

TokenRight(s, k) ==
    IF k = Cardinality(SemiPos(s)) + 1 THEN Len(s) + 1
    ELSE CHOOSE q \in SemiPos(s) : Cardinality({r \in SemiPos(s) : r < q}) = k - 1

EndsWith(s, t) == Len(t) <= Len(s) /\ SubSeq(s, Len(s) - Len(t) + 1, Len(s)) = t

\* C4. Reset: from any StyleState the code 0 sets all six fields to unset; an
\* empty parameter string and an empty parameter token are the code 0; text
\* that follows a lone reset sequence (ESC[0m, ESC[m, ESC[;m) is emitted
\* unwrapped; ESC[31m a ESC[0m b is a red span around a followed by bare b.
C4_Reset ==
    /\ [][AtCode(0) => state' = EmptyState /\ i' = i + 1]_vars
    /\ [](pc = "codes" =>
            /\ Len(codes) = Cardinality(SemiPos(match.params)) + 1
            /\ \A k \in 1..Len(codes) :
                   TokenRight(match.params, k) = TokenLeft(match.params, k) + 1
                       => codes[k] = 0)
    /\ [](pc = "done" /\ Len(lines) = 1
            /\ (\/ EndsWith(lines[1], <<"a", ESC, "[", "0", "m", "b">>)
                \/ EndsWith(lines[1], <<"a", ESC, "[", "m", "b">>)
                \/ EndsWith(lines[1], <<"a", ESC, "[", ";", "m", "b">>))
            => html[Len(html)] = "b")
    /\ [](pc = "done" /\ lines = << SGR(<<"3", "1">>) \o <<"a">> \o SGR(<<"0">>) \o <<"b">> >>
            => html = SpanOpenPrefix \o DeclColor \o <<"#", "c", "d", "0", "0", "0", "0">>
                          \o SpanOpenSuffix \o <<"a">> \o SpanClose \o <<"b">>)

\* with every field set, ESC[m has been read and the text after it emitted bare
C4_Witness ==
    /\ pc = "done"
    /\ lines = << SGRCodes(<<1, 2, 3, 4, 31, 41>>) \o <<"a">> \o SGR(<<>>) \o <<"b">> >>
    /\ html[Len(html)] = "b"
    /\ state = EmptyState

\* hs joined by the marker, written from the right
JoinedByMarker(hs) ==
    Flatten([k \in 1..Len(hs) |-> IF k < Len(hs) THEN hs[k] \o <<"<", "b", "r", ">">> ELSE hs[k]])

\* C5. Multi-line join: for every sequence of lines (the empty one and a single
\* line too) ansiLinesToHtml returns the per-line results of ansiToHtml in
\* order with "<br>" between consecutive ones and none leading or trailing.
C5_Join ==
    pc = "done" =>
        /\ Len(htmlLines) = Len(lines)
        /\ html = JoinedByMarker(htmlLines)
        /\ (lines = <<>> => html = <<>>)
        /\ (Len(lines) = 1 => html = htmlLines[1])
        /\ (lines = << <<"a">>, <<"b">> >> => html = <<"a", "<", "b", "r", ">", "b">>)

\* three lines have been joined
C5_Witness ==
    /\ pc = "done"
    /\ lines = << <<"a">>, <<>>, <<"<">> >>
    /\ html = <<"a", "<", "b", "r", ">", "<", "b", "r", ">">> \o EntLt

\* C6. Fresh state per line: the scan of every line starts with every field of
\* StyleState unset, an empty result and lastIndex 0, whatever the lines before
\* it left active; a line with no sequence is emitted with no span even after a
\* line that left a style set; equal lines give equal output.
C6_FreshState ==
    /\ (pc = "scan" /\ match = NoMatch) =>
           state = EmptyState /\ result = <<>> /\ lastIndex = 0
    /\ \A k \in 1..Len(htmlLines) :
           ~HasSequence(lines[k]) => htmlLines[k] = EscapedOnce(lines[k])
    /\ \A j, k \in 1..Len(htmlLines) :
           lines[j] = lines[k] => htmlLines[j] = htmlLines[k]

\* the scan of a second line starts after a first line that left red active
C6_Witness ==
    /\ pc = "scan"
    /\ match = NoMatch
    /\ lineNo = 1
    /\ lines[1] = SGR(<<"3", "1">>) \o <<"x">>
    /\ lines[2] = <<"a">>
    /\ state = EmptyState

\* the codes the if-chain tests for
KnownCodes ==
    {0, 1, 2, 3, 4, 22, 23, 24, 38, 39, 48, 49} \cup (30..37) \cup (40..47)
        \cup (90..97) \cup (100..107)

\* C7. Unknown code: a code the if-chain does not test for (99, 5, 21) leaves
\* every field of StyleState as it is and moves on to the next code, which is
\* then interpreted as it would be; ESC[99m before a line with no sequence
\* gives the output of that line alone.
C7_UnknownCode ==
    /\ [][(pc = "codes" /\ i < Len(codes) /\ codes[i + 1] \notin KnownCodes)
             => state' = state /\ i' = i + 1 /\ codes' = codes /\ result' = result]_vars
    /\ [](\A j, k \in 1..Len(htmlLines) :
             (lines[j] = <<ESC, "[", "9", "9", "m">> \o lines[k] /\ ~HasSequence(lines[k]))
                 => htmlLines[j] = htmlLines[k])

\* with every field set, 21 has been passed and the state is what it was
C7_Witness ==
    /\ pc = "codes"
    /\ codes = <<21, 1>>
    /\ i = 1
    /\ state = AllSet

\* the selector at the head of cs lacks its mode or sub-parameters
IncompleteSelector(cs) ==
    /\ cs[1] \in {38, 48}
    /\ \/ Len(cs) = 1
       \/ cs[2] \notin {2, 5}
       \/ cs[2] = 5 /\ Len(cs) < 3
       \/ cs[2] = 2 /\ Len(cs) < 5

\* the selector at the head of cs has mode 5 or 2 and too few sub-parameters,
\* so that the codes after it are its partial sub-parameters
TruncatedSelector(cs) ==
    /\ IncompleteSelector(cs)
    /\ Len(cs) >= 2
    /\ cs[2] \in {2, 5}

\* C8. Incomplete extended-colour selector: a 38 or 48 whose mode is missing
\* or not 5/2 changes no field, and one whose mode is 5 or 2 but whose
\* sub-parameters are missing (ESC[38;5m, ESC[38;2;1;4m, ESC[48;2;1m) changes
\* no field while it and its trailing partial sub-parameters are processed.
C8_IncompleteIgnored ==
    [][(/\ pc = "codes"
        /\ i < Len(codes)
        /\ IncompleteSelector(codes)
        /\ (i = 0 \/ TruncatedSelector(codes)))
          => state' = state]_vars

\* the hexadecimal digits
HexDigits ==
    {"0", "1", "2", "3", "4", "5", "6", "7", "8", "9", "a", "b", "c", "d", "e", "f",
     "A", "B", "C", "D", "E", "F"}

\* "#" and exactly six hexadecimal digits
IsHexColor(c) == Len(c) = 7 /\ c[1] = "#" /\ \A k \in 2..7 : c[k] \in HexDigits

\* a decimal numeral of a value in 0..255
IsChannel(t) ==
    /\ Len(t) \in 1..3
    /\ \A k \in 1..Len(t) : IsDigit(t[k])
    /\ ParseInt(t) <= 255

\* rgb(r,g,b) with every channel in 0..255
IsRgbColor(c) ==
    /\ Len(c) >= 5
    /\ SubSeq(c, 1, 4) = <<"r", "g", "b", "(">>
    /\ c[Len(c)] = ")"
    /\ LET ch == Split(SubSeq(c, 5, Len(c) - 1), ",")
       IN  Len(ch) = 3 /\ \A k \in 1..3 : IsChannel(ch[k])

RenderReady(c) == c = <<>> \/ IsHexColor(c) \/ IsRgbColor(c)

\* C9. Colours are render-ready: in every state of a scan the foreground and
\* the background are unset, "#" and six hexadecimal digits, or rgb(r,g,b)
\* with r, g, b in 0..255.
C9_RenderReady == RenderReady(state.fg) /\ RenderReady(state.bg)

\* the decimal numeral of n, 0 <= n <= 999
Decimal(n) ==
    IF n < 10 THEN <<DigitChars[n + 1]>>
    ELSE IF n < 100 THEN <<DigitChars[(n \div 10) + 1], DigitChars[(n % 10) + 1]>>
    ELSE <<DigitChars[(n \div 100) + 1], DigitChars[((n \div 10) % 10) + 1],
           DigitChars[(n % 10) + 1]>>

RgbText(r, g, b) ==
    <<"r", "g", "b", "(">> \o Decimal(r) \o <<",">> \o Decimal(g) \o <<",">>
        \o Decimal(b) \o <<")">>

\* the while loop is about to interpret a complete truecolor selector c;2;R;G;B
AtTruecolor(c) == AtCode(c) /\ i + 4 < Len(codes) /\ codes[i + 2] = 2

\* C10. Truecolor passthrough: a complete 38;2;R;G;B sets the foreground to
\* exactly rgb(R,G,B), the three values in decimal, in order, separated by
\* commas with no spaces, and 48;2;R;G;B sets the background likewise; no other
\* field changes; ESC[38;2;10;20;30m before text gives color:rgb(10,20,30).
C10_Truecolor ==
    /\ [][AtTruecolor(38) =>
              state' = [state EXCEPT !.fg = RgbText(codes[i + 3], codes[i + 4], codes[i + 5])]]_vars
    /\ [][AtTruecolor(48) =>
              state' = [state EXCEPT !.bg = RgbText(codes[i + 3], codes[i + 4], codes[i + 5])]]_vars
    /\ [](pc = "done"
            /\ lines = << <<"a">> \o SGR(<<"3", "8", ";", "2", ";", "1", "0", ";", "2", "0", ";", "3", "0">>)
                             \o <<"b">> >>
            => html = <<"a">> \o SpanOpenPrefix \o DeclColor
                          \o <<"r", "g", "b", "(", "1", "0", ",", "2", "0", ",", "3", "0", ")">>
                          \o SpanOpenSuffix \o <<"b">> \o SpanClose)

\* ESC[38;2;10;20;30m has been read and the text after it emitted in that colour
C10_Witness ==
    /\ pc = "done"
    /\ lines = << <<"a">> \o SGRCodes(<<38, 2, 10, 20, 30>>) \o <<"b">> >>
    /\ state.fg = <<"r", "g", "b", "(", "1", "0", ",", "2", "0", ",", "3", "0", ")">>
    /\ html = <<"a">> \o SpanOpenPrefix \o DeclColor \o state.fg \o SpanOpenSuffix
                  \o <<"b">> \o SpanClose

\* the two hexadecimal digits of v, 0 <= v <= 255
Hex2(v) == <<HexChars[(v \div 16) + 1], HexChars[(v % 16) + 1]>>

\* the value of a channel of the colour cube
CubeLevel(c) == IF c = 0 THEN 0 ELSE 55 + 40 * c

\* the colour of palette index n, 0 <= n <= 255
PaletteColor(n) ==
    IF n <= 15 THEN ANSI_COLORS_16[n + 1]
    ELSE IF n <= 231
    THEN <<"#">> \o Hex2(CubeLevel((n - 16) \div 36))
             \o Hex2(CubeLevel(((n - 16) % 36) \div 6))
             \o Hex2(CubeLevel((n - 16) % 6))
    ELSE <<"#">> \o Hex2((n - 232) * 10 + 8) \o Hex2((n - 232) * 10 + 8)
             \o Hex2((n - 232) * 10 + 8)

\* the while loop is about to interpret a complete indexed selector c;5;N
AtIndexed(c) == AtCode(c) /\ i + 2 < Len(codes) /\ codes[i + 2] = 5

\* C11. 256-colour palette: for every index 0..255 the colour that 38;5;N
\* (48;5;N) stores is the reference: the 16-entry table for 0..15, the 6x6x6
\* cube with levels 0 or 55+40c as two hexadecimal digits for 16..231, the
\* gray (N-232)*10+8 on all three channels for 232..255; 196 is #ff0000 and
\* 244 is #808080.
C11_Palette ==
    /\ [][(AtIndexed(38) /\ codes[i + 3] \in 0..255) =>
              state'.fg = PaletteColor(codes[i + 3])]_vars
    /\ [][(AtIndexed(48) /\ codes[i + 3] \in 0..255) =>
              state'.bg = PaletteColor(codes[i + 3])]_vars
    /\ [](pc = "codes" /\ i = 3 /\ codes = <<38, 5, 196>>
            => state.fg = <<"#", "f", "f", "0", "0", "0", "0">>)
    /\ [](pc = "codes" /\ i = 3 /\ codes = <<38, 5, 244>>
            => state.fg = <<"#", "8", "0", "8", "0", "8", "0">>)
    /\ [](pc = "codes" /\ i = 3 /\ codes = <<48, 5, 16>>
            => state.bg = <<"#", "0", "0", "0", "0", "0", "0">>)

\* index 196 has been resolved
C11_Witness ==
    /\ pc = "codes"
    /\ i = 3
    /\ codes = <<38, 5, 196>>
    /\ state.fg = <<"#", "f", "f", "0", "0", "0", "0">>

\* the while loop has finished the codes cs of a line that set no style before
SequenceDone(cs) == pc = "codes" /\ codes = cs /\ i = Len(cs) /\ text[1] = "a"

\* C12. Sub-parameters are consumed: a complete 38;5;N or 48;5;N moves the
\* index by 3 and a complete 38;2;R;G;B or 48;2;R;G;B by 5, changing only
\* the foreground (background), so the mode and the values are never
\* interpreted as codes (ESC[38;5;1m sets no bold, ESC[38;2;1;3;4m no bold,
\* italic or underline), and the code after the window is interpreted as usual.
C12_Consumed ==
    /\ [][AtIndexed(38) => i' = i + 3 /\ state' = [state EXCEPT !.fg = state'.fg]]_vars
    /\ [][AtIndexed(48) => i' = i + 3 /\ state' = [state EXCEPT !.bg = state'.bg]]_vars
    /\ [][AtTruecolor(38) => i' = i + 5 /\ state' = [state EXCEPT !.fg = state'.fg]]_vars
    /\ [][AtTruecolor(48) => i' = i + 5 /\ state' = [state EXCEPT !.bg = state'.bg]]_vars
    /\ [](SequenceDone(<<38, 5, 1>>) =>
            state = [EmptyState EXCEPT !.fg = <<"#", "c", "d", "0", "0", "0", "0">>])
    /\ [](SequenceDone(<<38, 2, 1, 3, 4>>) =>
            state = [EmptyState EXCEPT !.fg = <<"r", "g", "b", "(", "1", ",", "3", ",", "4", ")">>])
    /\ [](SequenceDone(<<38, 5, 1, 4>>) =>
            state = [EmptyState EXCEPT !.fg = <<"#", "c", "d", "0", "0", "0", "0">>,
                                       !.underline = TRUE])
    /\ [](SequenceDone(<<38, 2, 1, 3, 4, 1>>) =>
            state = [EmptyState EXCEPT !.fg = <<"r", "g", "b", "(", "1", ",", "3", ",", "4", ")">>,
                                       !.bold = TRUE])

\* after 38;2;1;3;4 the code 1 that follows the window has set bold alone
C12_Witness ==
    /\ SequenceDone(<<38, 2, 1, 3, 4, 1>>)
    /\ state.bold
    /\ ~state.italic
    /\ ~state.underline

\* the declarations that st calls for, in the order of the rendering
Declarations(st) ==
    (IF st.fg # <<>> THEN << <<"c", "o", "l", "o", "r", ":">> \o st.fg >> ELSE <<>>)
    \o (IF st.bg # <<>>
        THEN << <<"b", "a", "c", "k", "g", "r", "o", "u", "n", "d", "-",
                  "c", "o", "l", "o", "r", ":">> \o st.bg >>
        ELSE <<>>)
    \o (IF st.bold THEN <<DeclBold>> ELSE <<>>)
    \o (IF st.italic THEN <<DeclItalic>> ELSE <<>>)
    \o (IF st.underline THEN <<DeclUnderline>> ELSE <<>>)
    \o (IF st.dim THEN << <<"o", "p", "a", "c", "i", "t", "y", ":", "0", ".", "6">> >> ELSE <<>>)

\* ds written one after the other with ";" between two of them
RECURSIVE Semicolons(_)
Semicolons(ds) ==
    IF ds = <<>> THEN <<>>
    ELSE IF Len(ds) = 1 THEN ds[1]
    ELSE ds[1] \o <<";">> \o Semicolons(Tail(ds))

\* the open marker of a span for st
SpanMarker(st) ==
    <<"<", "s", "p", "a", "n", " ", "s", "t", "y", "l", "e", "=", "\"">>
    \o Semicolons(Declarations(st)) \o <<"\"", ">">>

\* what the output gains when the segment seg is emitted under st
Emitted(st, seg) ==
    IF seg = <<>> THEN <<>>
    ELSE IF st = EmptyState THEN EscapedOnce(seg)
    ELSE SpanMarker(st) \o EscapedOnce(seg) \o SpanClose

\* a step that emits a literal segment: the text before a match, or the rest
EmitStep == pc = "scan" /\ pc' # "scan"

\* the segment that an emitting step emits
EmittedSegment ==
    SubSeq(text, lastIndex + 1, IF pc' = "codes" THEN match'.index ELSE Len(text))

\* what an emitting step adds to the output
Gain == SubSeq(result', Len(result) + 1, Len(result'))

\* C13. Wrapping: a non-empty literal segment, between sequences or trailing,
\* is wrapped in a span exactly when some field of StyleState is set when it
\* is emitted; with all fields unset the escaped text is emitted bare; the
\* style of the span is the state accumulated from the sequences before the
\* segment, never from one after it.
C13_WrapIff ==
    /\ [][EmitStep => /\ IsPrefix(result, result')
                      /\ Gain = Emitted(state, EmittedSegment)
                      /\ state' = state]_vars
    /\ [][(EmitStep /\ EmittedSegment # <<>>) =>
              (OpenMarkerLen(Gain) > 0 <=> state # EmptyState)]_vars
    /\ [](pc = "done" /\ lines = << <<"a">> \o SGR(<<"1">>) \o <<"b">> >>
            => html = <<"a">> \o SpanOpenPrefix \o DeclBold \o SpanOpenSuffix
                          \o <<"b">> \o SpanClose)

\* "a" before ESC[1m is bare and "b" after it is in a bold span
C13_Witness ==
    /\ pc = "done"
    /\ lines = << <<"a">> \o SGR(<<"1">>) \o <<"b">> >>
    /\ html = <<"a">> \o SpanOpenPrefix \o DeclBold \o SpanOpenSuffix \o <<"b">> \o SpanClose

\* s cut at every ";"
RECURSIVE CutAtSemicolons(_)
CutAtSemicolons(s) ==
    IF \A q \in 1..Len(s) : s[q] # ";" THEN <<s>>
    ELSE LET q == CHOOSE q \in 1..Len(s) : s[q] = ";" /\ \A q2 \in 1..(q - 1) : s[q2] # ";"
         IN  <<SubSeq(s, 1, q - 1)>> \o CutAtSemicolons(SubSeq(s, q + 1, Len(s)))

\* the declarations in the open marker that starts at out[1]
MarkerDeclarations(out) ==
    CutAtSemicolons(SubSeq(out, Len(SpanOpenPrefix) + 1, OpenMarkerLen(out) - 2))

\* C14. Declaration order: the declarations of an emitted span are those of
\* the fields that are set, each exactly once, in the order foreground,
\* background, bold, italic, underline, dim (opacity:0.6), whatever the order
\* in which the codes came; no span is opened without a declaration.
C14_DeclarationOrder ==
    /\ [][(EmitStep /\ OpenMarkerLen(Gain) > 0) =>
              /\ MarkerDeclarations(Gain) = Declarations(state)
              /\ Len(MarkerDeclarations(Gain)) >= 1
              /\ MarkerDeclarations(Gain)[1] # <<>>]_vars
    /\ [](pc = "codes" /\ i = 0 /\ state = AllSet /\ result # <<>>
            => result = SpanOpenPrefix
                   \o <<"c", "o", "l", "o", "r", ":", "#", "c", "d", "0", "0", "0", "0", ";">>
                   \o DeclBackground \o <<"#", "c", "d", "0", "0", "0", "0", ";">>
                   \o DeclBold \o <<";">> \o DeclItalic \o <<";">>
                   \o DeclUnderline \o <<";">>
                   \o <<"o", "p", "a", "c", "i", "t", "y", ":", "0", ".", "6">>
                   \o SpanOpenSuffix \o <<"a">> \o SpanClose)

\* a span with all six declarations has been emitted
C14_Witness ==
    /\ pc = "map"
    /\ state = AllSet
    /\ Len(MarkerDeclarations(result)) = 6

\* C15. Attribute-off codes: 22 unsets bold and dim, 23 italic, 24 underline,
\* 39 the foreground, 49 the background, and each leaves every other field
\* of StyleState as it was, in every state.
C15_AttributeOff ==
    /\ [][AtCode(22) => state' = [state EXCEPT !.bold = FALSE, !.dim = FALSE]]_vars
    /\ [][AtCode(23) => state' = [state EXCEPT !.italic = FALSE]]_vars
    /\ [][AtCode(24) => state' = [state EXCEPT !.underline = FALSE]]_vars
    /\ [][AtCode(39) => state' = [state EXCEPT !.fg = <<>>]]_vars
    /\ [][AtCode(49) => state' = [state EXCEPT !.bg = <<>>]]_vars

\* 22 has acted on the state with every field set
C15_Witness ==
    /\ pc = "codes"
    /\ codes = <<22>>
    /\ i = 1
    /\ state = [AllSet EXCEPT !.bold = FALSE, !.dim = FALSE]

\* the codes that the if-chain gives to the foreground, and to the background
ForegroundCodes == (30..37) \cup (90..97) \cup {38, 39}

BackgroundCodes == (40..47) \cup (100..107) \cup {48, 49}

\* the while loop is about to interpret a code of the set cs
AtCodeIn(cs) == pc = "codes" /\ i < Len(codes) /\ codes[i + 1] \in cs

\* C16. Colours overwrite: 30..37 set the foreground to table[code-30] and
\* 90..97 to table[8+code-90], 38;5;N to the palette colour and 38;2;R;G;B
\* to the rgb colour, whatever the foreground was, and leave the background
\* and the flags as they were; the same for the background with 40..47,
\* 100..107 and 48; a code that is neither a foreground code nor 0 leaves
\* the foreground as it was, and likewise for the background, so the colour
\* is that of the last colour code since the last 0, 39 or 49.
C16_ColorsOverwrite ==
    /\ [][AtCodeIn(30..37) =>
              state' = [state EXCEPT !.fg = ANSI_COLORS_16[(codes[i + 1] - 30) + 1]]]_vars
    /\ [][AtCodeIn(90..97) =>
              state' = [state EXCEPT !.fg = ANSI_COLORS_16[(8 + codes[i + 1] - 90) + 1]]]_vars
    /\ [][AtCodeIn(40..47) =>
              state' = [state EXCEPT !.bg = ANSI_COLORS_16[(codes[i + 1] - 40) + 1]]]_vars
    /\ [][AtCodeIn(100..107) =>
              state' = [state EXCEPT !.bg = ANSI_COLORS_16[(8 + codes[i + 1] - 100) + 1]]]_vars
    /\ [][(AtIndexed(38) /\ codes[i + 3] \in 0..255) =>
              state' = [state EXCEPT !.fg = PaletteColor(codes[i + 3])]]_vars
    /\ [][(AtIndexed(48) /\ codes[i + 3] \in 0..255) =>
              state' = [state EXCEPT !.bg = PaletteColor(codes[i + 3])]]_vars
    /\ [][AtCodeIn(ForegroundCodes) => state' = [state EXCEPT !.fg = state'.fg]]_vars
    /\ [][AtCodeIn(BackgroundCodes) => state' = [state EXCEPT !.bg = state'.bg]]_vars
    /\ [][(pc = "codes" /\ i < Len(codes) /\ codes[i + 1] \notin ForegroundCodes \cup {0})
              => state'.fg = state.fg]_vars
    /\ [][(pc = "codes" /\ i < Len(codes) /\ codes[i + 1] \notin BackgroundCodes \cup {0})
              => state'.bg = state.bg]_vars
    /\ [](pc = "codes" /\ i = 1 /\ codes = <<91>>
            => state.fg = <<"#", "f", "f", "0", "0", "0", "0">>)
    /\ [](pc = "codes" /\ i = 1 /\ codes = <<107>>
            => state.bg = <<"#", "f", "f", "f", "f", "f", "f">>)
    /\ [](pc = "codes" /\ i = 2 /\ codes = <<91, 31>>
            => state.fg = <<"#", "c", "d", "0", "0", "0", "0">>)

\* over the red foreground of the setup, 91 has put bright red and nothing else
C16_Witness ==
    /\ pc = "codes"
    /\ codes = <<91>>
    /\ i = 1
    /\ state = [AllSet EXCEPT !.fg = <<"#", "f", "f", "0", "0", "0", "0">>]

\* what follows the last complete sequence of s
RECURSIVE AfterLastSequence(_)
AfterLastSequence(s) ==
    IF ~HasSequence(s) THEN s
    ELSE IF SequenceLenAt(s) > 0
    THEN AfterLastSequence(SubSeq(s, SequenceLenAt(s) + 1, Len(s)))
    ELSE AfterLastSequence(Tail(s))

\* C17. Partial sequences: an ESC [ that is not completed by digits,
\* semicolons and "m" is no match: the matches are the complete sequences
\* alone, StyleState changes only while the codes of a match are interpreted,
\* and the characters of the partial sequence are emitted as literal text
\* under the style current at that point.
C17_PartialLiteral ==
    /\ [](pc = "codes" =>
            /\ match.index \in 0..(Len(text) - 3)
            /\ SequenceLenAt(SubSeq(text, match.index + 1, Len(text))) = match.length)
    /\ [][state' # state => pc = "codes" \/ pc = "map"]_vars
    /\ [](\A k \in 1..Len(htmlLines) :
            (HasPartialSequence(lines[k]) /\ ~HasSequence(lines[k]))
                => htmlLines[k] = EscapedOnce(lines[k]))
    /\ [](\A k \in 1..Len(htmlLines) :
            LET rest == SubSeq(lines[k], 5, Len(lines[k]))
            IN  (IsPrefix(SGR(<<"1">>), lines[k]) /\ HasPartialSequence(rest) /\ ~HasSequence(rest))
                    => htmlLines[k] = SpanOpenPrefix \o DeclBold \o SpanOpenSuffix
                                          \o EscapedOnce(rest) \o SpanClose)
    /\ [](pc = "map" /\ lineNo >= 1 /\ HasPartialSequence(AfterLastSequence(text))
            => EndsWith(result, Emitted(state, AfterLastSequence(text))))

\* after ESC[1m the unterminated ESC [ 1 has been emitted inside the bold span
C17_Witness ==
    /\ pc = "done"
    /\ lines = << SGR(<<"1">>) \o <<ESC, "[", "1">> >>
    /\ html = SpanOpenPrefix \o DeclBold \o SpanOpenSuffix \o <<ESC, "[", "1">> \o SpanClose

\* out holds a span directly followed by a span with the same open marker
AdjacentIdenticalSpans(out) ==
    \E q \in 1..Len(out) :
        LET after == SubSeq(out, q + Len(SpanClose), Len(out))
            len == OpenMarkerLen(after)
        IN  /\ IsPrefix(SpanClose, SubSeq(out, q, Len(out)))
            /\ len > 0
            /\ \E p \in 1..(q - len) :
                   /\ SubSeq(out, p, p + len - 1) = SubSeq(after, 1, len)
                   /\ \A r \in (p + len)..(q - 1) : out[r] # "<"

\* the number of span open markers in out
SpanCount(out) ==
    Cardinality({q \in 1..Len(out) : IsPrefix(SpanOpenPrefix, SubSeq(out, q, Len(out)))})

\* the number of maximal non-empty runs of literal text of s, the complete
\* sequences being the separators; inRun: the character before is literal
RECURSIVE SegmentCount(_, _)
SegmentCount(s, inRun) ==
    IF s = <<>> THEN 0
    ELSE IF SequenceLenAt(s) > 0
    THEN SegmentCount(SubSeq(s, SequenceLenAt(s) + 1, Len(s)), FALSE)
    ELSE (IF inRun THEN 0 ELSE 1) + SegmentCount(Tail(s), TRUE)

\* C18, as stated. Single span: the output of a line never holds two
\* directly adjacent spans with identical style declarations.
C18_SingleSpan ==
    \A k \in 1..Len(htmlLines) : ~AdjacentIdenticalSpans(htmlLines[k])

\* C18, amended. One span per segment: a non-empty literal segment emitted
\* under a set style is one span, so a line has at most as many spans as
\* literal segments, and text that a sequence splits without changing the
\* state (ESC[1m a ESC[99m b) is two adjacent spans with the same declarations.
C18_SpanPerSegment ==
    /\ [](\A k \in 1..Len(htmlLines) :
            SpanCount(htmlLines[k]) <= SegmentCount(lines[k], FALSE))
    /\ [][(EmitStep /\ EmittedSegment # <<>>) =>
              SpanCount(Gain) = (IF state = EmptyState THEN 0 ELSE 1)]_vars
    /\ [](pc = "done" /\ lines = << SGR(<<"1">>) \o <<"a">> \o SGR(<<"9", "9">>) \o <<"b">> >>
            => html = SpanOpenPrefix \o DeclBold \o SpanOpenSuffix \o <<"a">> \o SpanClose
                          \o SpanOpenPrefix \o DeclBold \o SpanOpenSuffix \o <<"b">> \o SpanClose)

\* bold text split by ESC[99m has been emitted as two bold spans
C18_Witness ==
    /\ pc = "done"
    /\ lines = << SGR(<<"1">>) \o <<"a">> \o SGR(<<"9", "9">>) \o <<"b">> >>
    /\ AdjacentIdenticalSpans(html)
    /\ SpanCount(html) = 2

\* C19. Termination of the scan: lastIndex only moves forward within a line
\* and lands on the end of the match just processed; every match starts at
\* or after the end of the one before, so none is processed twice; every
\* iteration of the inner loop moves the code index up by 1, 3 or 5 and
\* never past the end of the code list by more than the step; a measure of
\* the work left decreases on every step and is never negative.
C19_ScanTerminates ==
    /\ [][pc # "map" => lastIndex' >= lastIndex]_vars
    /\ [][(pc = "codes" /\ pc' = "scan") =>
              /\ lastIndex' = match.index + match.length
              /\ lastIndex' >= lastIndex + 3
              /\ lastIndex' <= Len(text)]_vars
    /\ [][(pc = "scan" /\ pc' = "codes") =>
              /\ match'.index >= lastIndex
              /\ match # NoMatch => match'.index >= match.index + match.length
              /\ i' = 0]_vars
    /\ [][(pc = "codes" /\ pc' = "codes") =>
              /\ i' - i \in {1, 3, 5}
              /\ i' <= Len(codes)
              /\ codes' = codes
              /\ match' = match]_vars
    /\ [](pc = "codes" /\ i < Len(codes) =>
              /\ NextI(codes, i) - i \in {1, 3, 5}
              /\ NextI(codes, i) <= Len(codes))
    /\ [](pc = "codes" => i <= Len(codes) /\ Len(codes) >= 1)
    /\ [](Rank >= 0)
    /\ [][Rank' < Rank]_vars

\* a line whose sequence advances the code index by 5 and then by 1 has been
\* scanned to its end
C19_Witness ==
    /\ pc = "map"
    /\ lineNo = 1
    /\ codes = <<38, 2, 1, 3, 4, 1>>
    /\ i = 6
    /\ lastIndex = Len(text) - 1

\* s with each of the three entities replaced by its character
RECURSIVE Decoded(_)
Decoded(s) ==
    IF s = <<>> THEN <<>>
    ELSE IF IsPrefix(EntAmp, s) THEN <<"&">> \o Decoded(SubSeq(s, Len(EntAmp) + 1, Len(s)))
    ELSE IF IsPrefix(EntLt, s) THEN <<"<">> \o Decoded(SubSeq(s, Len(EntLt) + 1, Len(s)))
    ELSE IF IsPrefix(EntGt, s) THEN <<">">> \o Decoded(SubSeq(s, Len(EntGt) + 1, Len(s)))
    ELSE <<Head(s)>> \o Decoded(Tail(s))

\* every ESC of s begins a complete sequence
AllEscMatched(s) ==
    \A p \in 1..Len(s) : s[p] = ESC => SequenceLenAt(SubSeq(s, p, Len(s))) > 0

\* C20. Content preservation: for every line, the output with the span
\* markers taken out and the three entities decoded is the line with every
\* complete sequence deleted, each literal character once and in order; no
\* part of a matched sequence reaches the output; and while a line is being
\* scanned the output is that of the part of the line before lastIndex.
C20_ContentPreserved ==
    /\ \A k \in 1..Len(htmlLines) :
           /\ Decoded(StripSpans(htmlLines[k])) = LiteralText(lines[k])
           /\ AllEscMatched(lines[k]) => \A q \in 1..Len(htmlLines[k]) : htmlLines[k][q] # ESC
    /\ pc = "scan" => Decoded(StripSpans(result)) = LiteralText(SubSeq(text, 1, lastIndex))

\* x ESC[1m & has been converted: x bare, the entity of & in the bold span
C20_Witness ==
    /\ pc = "done"
    /\ lines = << <<"x">> \o SGR(<<"1">>) \o <<"&">> >>
    /\ html = <<"x">> \o SpanOpenPrefix \o DeclBold \o SpanOpenSuffix \o EntAmp \o SpanClose

\* the number of characters at the head of s that are not "<"
RECURSIVE TextRunLen(_)
TextRunLen(s) == IF s = <<>> \/ Head(s) = "<" THEN 0 ELSE 1 + TextRunLen(Tail(s))

\* out is a series of bare text and of spans, each span an open marker, then
\* text that is not empty, then the close marker
RECURSIVE WellFormed(_)
WellFormed(out) ==
    IF out = <<>> THEN TRUE
    ELSE IF Head(out) # "<" THEN WellFormed(Tail(out))
    ELSE IF OpenMarkerLen(out) = 0 THEN FALSE
    ELSE LET body == SubSeq(out, OpenMarkerLen(out) + 1, Len(out))
             n == TextRunLen(body)
             rest == SubSeq(body, n + 1, Len(body))
         IN  /\ n > 0
             /\ IsPrefix(SpanClose, rest)
             /\ WellFormed(SubSeq(rest, Len(SpanClose) + 1, Len(rest)))

\* the number of span close markers in out
CloseCount(out) ==
    Cardinality({q \in 1..Len(out) : IsPrefix(SpanClose, SubSeq(out, q, Len(out)))})

\* C21. Span well-formedness: the output of ansiToHtml, finished or in the
\* making, is bare text and spans one after the other: every open marker is
\* followed by text that is not empty and then by its close marker before
\* another span opens, none is left open, no close marker stands without its
\* open marker; a step whose segment is empty (two sequences with nothing
\* between them) adds nothing to the output.
C21_WellFormed ==
    /\ [](WellFormed(result) /\ SpanCount(result) = CloseCount(result))
    /\ [](\A k \in 1..Len(htmlLines) :
            WellFormed(htmlLines[k]) /\ SpanCount(htmlLines[k]) = CloseCount(htmlLines[k]))
    /\ [][(EmitStep /\ EmittedSegment = <<>>) => result' = result]_vars
    /\ [](pc = "done" /\ lines = << SGR(<<"1">>) \o SGR(<<"1">>) >> => html = <<>>)

\* two bold sequences with nothing between them, then text: one span
C21_Witness ==
    /\ pc = "done"
    /\ lines = << SGR(<<"1">>) \o SGR(<<"1">>) \o <<"x">> >>
    /\ html = SpanOpenPrefix \o DeclBold \o SpanOpenSuffix \o <<"x">> \o SpanClose

\* a step that is a call of renderCall or renderResult; invocation' is the call
InvokeStep == pc = "done" /\ returned.kind # "pending" /\ invocation' # NoInvocation

\* the render function of the registered definition that the call asks for
Registered(inv) ==
    IF inv.op = "renderCall" THEN extensions[inv.toolName].renderCall
    ELSE extensions[inv.toolName].renderResult

\* the calls that end without a component to convert
FallbackBehaviours == {"notCalled", "throws", "nothing", "renderThrows"}

\* C22, as stated. Fallback: when the tool has no definition, the definition
\* has no render function for the call, the render function returns no
\* component, or the render function or the component's render throws, the
\* call returns undefined and the cached definitions are what they were.
C22_CacheUntouched ==
    [][(InvokeStep /\ invocation'.behaviour \in FallbackBehaviours) =>
           /\ returned' = [kind |-> "undefined", value |-> <<>>]
           /\ toolDefinitions' = toolDefinitions]_allVars

\* C22, amended. Fallback: in each of those cases the call returns undefined,
\* no error ever reaches the caller and nothing is converted; the render
\* function is not called exactly when the tool has no definition or the
\* definition lacks the function; a definition already cached is left as it
\* was, and the one change a call can make to the cache is to add the
\* definition of its tool, found on the first lookup, before anything is
\* rendered; a tool without definition is never cached.
C22_Fallback ==
    /\ [](returned.kind \in {"none", "pending", "undefined", "string"})
    /\ [](\A n \in DOMAIN toolDefinitions :
            n \in ToolNames /\ toolDefinitions[n] = extensions[n]
                /\ toolDefinitions[n] # NoDefinition)
    /\ [][(InvokeStep /\ invocation'.behaviour \in FallbackBehaviours) =>
              /\ returned' = [kind |-> "undefined", value |-> <<>>]
              /\ vars' = vars]_allVars
    /\ [][InvokeStep =>
              (invocation'.behaviour = "notCalled" <=> ~Registered(invocation'))]_allVars
    /\ [][InvokeStep =>
              /\ \A n \in DOMAIN toolDefinitions :
                     n \in DOMAIN toolDefinitions' /\ toolDefinitions'[n] = toolDefinitions[n]
              /\ DOMAIN toolDefinitions' \subseteq DOMAIN toolDefinitions \cup {invocation'.toolName}
              /\ extensions' = extensions]_allVars
    /\ [][(InvokeStep /\ extensions[invocation'.toolName] = NoDefinition) =>
              /\ toolDefinitions' = toolDefinitions
              /\ returned'.kind = "undefined"]_allVars
    /\ [][(InvokeStep /\ extensions[invocation'.toolName] # NoDefinition) =>
              invocation'.toolName \in DOMAIN toolDefinitions']_allVars

\* renderResult of a cached definition: the render of its component threw
\* and the caller got undefined
C22_Witness ==
    /\ invocation.op = "renderResult"
    /\ invocation.behaviour = "renderThrows"
    /\ returned = [kind |-> "undefined", value |-> <<>>]
    /\ invocation.toolName \in DOMAIN toolDefinitions
    /\ Cardinality(DOMAIN toolDefinitions) = 2

====
